---- MODULE Spec2Model ----
(***************************************************************************)
(* Route registry (route_manager/route_manager.py, class RouteManager) and  *)
(* additive fitness evaluation (route_manager/fitness.py, class Fitness).   *)
(*                                                                         *)
(* Spec        : the registry: load_graph, register_fitness_func,          *)
(*               add_route, add_shortest_path_route, get_route,            *)
(*               calc_fitness_for_routes.                                  *)
(* SpecFitness : Fitness.calculate_fitness over a weight table and the     *)
(*               results of the eleven criterion calculators.              *)
(***************************************************************************)
EXTENDS Integers, Sequences, FiniteSets, TLC

VARIABLES
    graph,          \* RouteManager.graph: NoneVal or a graph
    cache_file,     \* content of the file construct_filename() names
    routes,         \* RouteManager.routes: route name -> route attributes
    routes_keys,    \* insertion order of the keys of RouteManager.routes
    fitness_func,   \* RouteManager.fitness_func
    weights,        \* Fitness.weights
    assigned,       \* criteria whose weight the caller has set explicitly
    scores,         \* what each Fitness._calculate_* method returns
    last            \* the most recent call: arguments, outcome, effects

vars == <<graph, cache_file, routes, routes_keys, fitness_func,
          weights, assigned, scores, last>>

registry_vars == <<graph, cache_file, routes, routes_keys, fitness_func>>

fitness_vars == <<weights, assigned, scores>>

(***************************************************************************)
(* Bounds of the model.                                                    *)
(***************************************************************************)
\* longest path a caller passes to add_route
MaxPathLen == 2

\* most weight assignments plus calculator overrides on one Fitness object
MaxChanged == 3

(***************************************************************************)
(* Python values.                                                          *)
(***************************************************************************)
NoneVal == [py |-> "None"]

NoError == "NoError"

\* floats: finite values on an integer grid, and the IEEE specials
Fin(n) == [kind |-> "finite", val |-> n]

NegInf == [kind |-> "-inf", val |-> 0]

PosInf == [kind |-> "+inf", val |-> 0]

NaN == [kind |-> "nan", val |-> 0]

\* weight * score, weight a Python int
FMul(w, s) ==
    CASE s.kind = "finite" -> Fin(w * s.val)
      [] s.kind = "nan"    -> NaN
      [] s.kind = "-inf"   -> IF w > 0 THEN NegInf ELSE IF w < 0 THEN PosInf ELSE NaN
      [] s.kind = "+inf"   -> IF w > 0 THEN PosInf ELSE IF w < 0 THEN NegInf ELSE NaN

\* a + b
FAdd(a, b) ==
    CASE a.kind = "nan" \/ b.kind = "nan"            -> NaN
      [] a.kind = "finite" /\ b.kind = "finite"      -> Fin(a.val + b.val)
      [] a.kind = "finite"                           -> b
      [] b.kind = "finite"                           -> a
      [] a.kind = b.kind                             -> a
      [] OTHER                                       -> NaN

\* {}
EmptyDict == [x \in {} |-> x]

\* d[k] = v on a dict
SetItem(d, k, v) == [x \in (DOMAIN d) \cup {k} |-> IF x = k THEN v ELSE d[x]]

(***************************************************************************)
(* The source graph and the graph primitives of networkx / osmnx.          *)
(***************************************************************************)
\* the graph the map provider returns for (lat_lon, distance, network_type):
\* a line 1 - 2 - 3 whose first segment is one-way
OsmGraph ==
    [nodes |-> {1, 2, 3},
     edges |-> {[u |-> 1, v |-> 2, key |-> 0, length |-> 10, highway |-> "primary"],
                [u |-> 2, v |-> 3, key |-> 0, length |-> 20, highway |-> "residential"],
                [u |-> 3, v |-> 2, key |-> 0, length |-> 20, highway |-> "residential"]}]

\* node ids a caller puts in a path; 4 is not a node of the graph
PathNodes == {2, 4}

\* (start_node, end_node) a caller passes to add_route
EndpointInputs == {<<2, 2>>, <<1, 3>>}

\* (start_node, end_node) a caller passes to add_shortest_path_route:
\* connected, not connected, a single node, a node not in the graph
ShortestInputs == {<<1, 3>>, <<3, 1>>, <<2, 2>>, <<4, 1>>}

Names == {"foo", "bar"}

\* neighbors taken in both directions, as on an undirected graph
neighbors_undirected(g, n) ==
    {e.v : e \in {x \in g.edges : x.u = n}} \cup {e.u : e \in {x \in g.edges : x.v = n}}

\* MultiDiGraph.neighbors(n): the successors of n
neighbors(g, n) == {e.v : e \in {x \in g.edges : x.u = n}}

\* MultiDiGraph.subgraph(nbunch).copy(): nodes of nbunch that are in g, and
\* the edges of g between them
subgraph(g, nbunch) ==
    [nodes |-> g.nodes \cap nbunch,
     edges |-> {e \in g.edges : e.u \in nbunch /\ e.v \in nbunch}]

Range(s) == {s[i] : i \in DOMAIN s}

\* paths a caller may pass to add_route
PathInputs == UNION {[1..k -> PathNodes] : k \in 0..MaxPathLen}

\* length of the shortest of the parallel edges u -> v
HopLength(g, u, v) ==
    LET ls == {e.length : e \in {x \in g.edges : x.u = u /\ x.v = v}}
    IN  CHOOSE l \in ls : \A m \in ls : l <= m

RECURSIVE WalkLength(_, _, _)
WalkLength(g, p, i) ==
    IF i >= Len(p) THEN 0
    ELSE HopLength(g, p[i], p[i + 1]) + WalkLength(g, p, i + 1)

\* the simple paths of g from s to e
SimplePaths(g, s, e) ==
    {p \in UNION {[1..k -> g.nodes] : k \in 1..Cardinality(g.nodes)} :
        /\ p[1] = s /\ p[Len(p)] = e
        /\ \A i, j \in DOMAIN p : i # j => p[i] # p[j]
        /\ \A i \in 1..(Len(p) - 1) : p[i + 1] \in neighbors(g, p[i])}

\* a primitive returning the two endpoints as the path
shortest_path_route_endpoints(g, s, e, no_path_raises) ==
    IF g = NoneVal
    THEN [raised |-> "AttributeError", is_none |-> TRUE, path |-> <<>>]
    ELSE IF s \notin g.nodes \/ e \notin g.nodes
    THEN [raised |-> "NodeNotFound", is_none |-> TRUE, path |-> <<>>]
    ELSE IF SimplePaths(g, s, e) = {}
    THEN [raised |-> IF no_path_raises THEN "NetworkXNoPath" ELSE NoError,
          is_none |-> TRUE, path |-> <<>>]
    ELSE [raised |-> NoError, is_none |-> FALSE, path |-> <<s, e>>]

\* the outcome of ox.shortest_path(graph, s, e), weight="length":
\* [raised, is_none, path]. When no path exists osmnx either raises
\* NetworkXNoPath or returns None, depending on its version (no_path_raises).
shortest_path_route(g, s, e, no_path_raises) ==
    IF g = NoneVal
    THEN [raised |-> "AttributeError", is_none |-> TRUE, path |-> <<>>]
    ELSE IF s \notin g.nodes \/ e \notin g.nodes
    THEN [raised |-> "NodeNotFound", is_none |-> TRUE, path |-> <<>>]
    ELSE IF SimplePaths(g, s, e) = {}
    THEN [raised |-> IF no_path_raises THEN "NetworkXNoPath" ELSE NoError,
          is_none |-> TRUE, path |-> <<>>]
    ELSE [raised |-> NoError, is_none |-> FALSE,
          path |-> CHOOSE p \in SimplePaths(g, s, e) :
                      \A q \in SimplePaths(g, s, e) :
                          WalkLength(g, p, 1) <= WalkLength(g, q, 1)]

(***************************************************************************)
(* Fitness (fitness.py).                                                   *)
(***************************************************************************)
\* the keys of Fitness.weights, in insertion order
Criteria ==
    <<"desired_distance", "road_type", "number_of_junctions", "junctions",
      "turns", "uphill_sections", "downhill_sections", "number_of_lanes",
      "one_way_routes", "narrow_roads", "downhills_with_lights">>

CriteriaSet == Range(Criteria)

\* a weight table whose road_type entry is left at 0
InitWeights_road_type_zero == [c \in CriteriaSet |-> IF c = "road_type" THEN 0 ELSE 1]

\* Fitness.__init__: every criterion weighted 1
InitWeights == [c \in CriteriaSet |-> 1]

\* the _calculate_*_score methods as written: every one returns 0
StubScores == [c \in CriteriaSet |-> Fin(0)]

\* values a calculator may return: a score, or negative infinity
ScoreValues == {NegInf, Fin(0), Fin(1)}

\* weights a caller assigns
WeightValues == {0, 2}

RECURSIVE weighted_sum(_, _, _, _)
\* for criterion, weight in self.weights.items(): fitness += weight * scores[criterion]
weighted_sum(sc, wt, i, fitness) ==
    IF i > Len(Criteria) THEN fitness
    ELSE weighted_sum(sc, wt, i + 1,
                      FAdd(fitness, FMul(wt[Criteria[i]], sc[Criteria[i]])))

\* calculate_fitness with the hard-fail test on desired_distance alone
calculate_fitness_distance_only(sc, wt) ==
    IF sc["desired_distance"] = NegInf
    THEN NegInf
    ELSE weighted_sum(sc, wt, 1, Fin(0))

\* Fitness.calculate_fitness, given the scores dict it builds
calculate_fitness(sc, wt) ==
    IF sc["desired_distance"] = NegInf \/ sc["uphill_sections"] = NegInf
    THEN NegInf
    ELSE weighted_sum(sc, wt, 1, Fin(0))

(***************************************************************************)
(* Fitness functions a caller registers.                                   *)
(***************************************************************************)
\* "path_len": fitness_func_abc of the tests, len(route_attributes["path"])
\* "calculate_fitness": the bound method Fitness.calculate_fitness
FitnessFuncs == {"path_len", "calculate_fitness"}

\* Fitness(distance, dist_variance, ...): the desired route distance and
\* the allowable variance the instance is built with
distance == 50

dist_variance == 10

\* a fitness function that reads the fitness already stored in the record
apply_fitness_func_reads_fitness(f, route_attributes) ==
    IF "fitness" \in DOMAIN route_attributes THEN Fin(0)
    ELSE IF f = "path_len" THEN Fin(Len(route_attributes["path"]))
    ELSE IF f = "first_node" THEN Fin(route_attributes["path"][1])
    ELSE calculate_fitness(scores, weights)

\* the value self.fitness_func(route_attributes) returns
apply_fitness_func(f, route_attributes) ==
    IF f = "path_len" THEN Fin(Len(route_attributes["path"]))
    ELSE IF f = "first_node" THEN Fin(route_attributes["path"][1])
    ELSE calculate_fitness(scores, weights)

\* the exception self.fitness_func(route_attributes) raises, or NoError:
\* first_node is lambda r: r["path"][0]
fitness_func_raised(f, route_attributes) ==
    IF f = "first_node" /\ Len(route_attributes["path"]) = 0 THEN "IndexError"
    ELSE NoError

(***************************************************************************)
(* The record of the most recent call.                                     *)
(***************************************************************************)
Call(op, name, args, raised, ret, warnings, calls) ==
    [op |-> op, name |-> name, args |-> args, raised |-> raised, ret |-> ret,
     warnings |-> warnings, calls |-> calls]

(***************************************************************************)
(* RouteManager.                                                           *)
(***************************************************************************)
Init ==
    /\ graph = NoneVal
    /\ cache_file = NoneVal
    /\ routes = EmptyDict
    /\ routes_keys = <<>>
    /\ fitness_func = "None"
    /\ weights = InitWeights
    /\ assigned = {}
    /\ scores = StubScores
    /\ last = Call("__init__", "", <<>>, NoError, NoneVal, <<>>, <<>>)

\* construct_filename(): the cache file is named after the key
\* (lat_lon, distance, network_type) of the manager
construct_filename ==
    [lat_lon |-> <<51, 0>>, distance |-> 1000, network_type |-> "skate"]

\* a call load_graph makes to a collaborator
Collaborator(name, arg, ret) == [name |-> name, arg |-> arg, ret |-> ret]

\* load_graph generating and saving whether or not the file exists
load_graph_always_generates ==
    /\ graph' = OsmGraph
    /\ cache_file' = OsmGraph
    /\ last' = Call("load_graph", "", <<>>, NoError, NoneVal, <<>>,
                    <<Collaborator("os.path.exists", construct_filename,
                                   cache_file # NoneVal),
                      Collaborator("ox.graph_from_point", construct_filename,
                                   NoneVal),
                      Collaborator("ox.save_graphml", construct_filename,
                                   NoneVal)>>)
    /\ UNCHANGED <<routes, routes_keys, fitness_func, fitness_vars>>

load_graph ==
    /\ IF cache_file # NoneVal
       THEN /\ graph' = cache_file
            /\ UNCHANGED cache_file
            /\ last' = Call("load_graph", "", <<>>, NoError, NoneVal, <<>>,
                            <<Collaborator("os.path.exists", construct_filename,
                                           TRUE),
                              Collaborator("ox.load_graphml", construct_filename,
                                           NoneVal)>>)
       ELSE /\ graph' = OsmGraph
            /\ cache_file' = OsmGraph
            /\ last' = Call("load_graph", "", <<>>, NoError, NoneVal, <<>>,
                            <<Collaborator("os.path.exists", construct_filename,
                                           FALSE),
                              Collaborator("ox.graph_from_point",
                                           construct_filename, NoneVal),
                              Collaborator("ox.save_graphml", construct_filename,
                                           NoneVal)>>)
    /\ UNCHANGED <<routes, routes_keys, fitness_func, fitness_vars>>

\* registering None clears the fitness of every route
register_fitness_func_clears(f) ==
    /\ fitness_func' = f
    /\ routes' = IF f = "None"
                 THEN [n \in DOMAIN routes |->
                          [k \in (DOMAIN routes[n]) \ {"fitness"} |-> routes[n][k]]]
                 ELSE routes
    /\ last' = Call("register_fitness_func", f, <<>>, NoError, NoneVal, <<>>, <<>>)
    /\ UNCHANGED <<graph, cache_file, routes_keys, fitness_vars>>

register_fitness_func(f) ==
    /\ fitness_func' = f
    /\ last' = Call("register_fitness_func", f, <<>>, NoError, NoneVal, <<>>, <<>>)
    /\ UNCHANGED <<graph, cache_file, routes, routes_keys, fitness_vars>>

\* the set of neighbours of the nodes of path
get_path_neigbours(g, path) == UNION {neighbors(g, path[i]) : i \in DOMAIN path}

\* the exception add_route raises, or NoError
add_route_raised(g, path) ==
    IF g = NoneVal THEN "AttributeError"
    ELSE IF \E i \in DOMAIN path : path[i] \notin g.nodes THEN "NetworkXError"
    ELSE NoError

\* the dict with start_node and end_node exchanged
route_record_swapped(g, start_node, end_node, path) ==
    [start_node |-> end_node,
     end_node |-> start_node,
     path |-> path,
     route_graph |-> subgraph(g, Range(path)),
     route_and_neighbour_graph |->
         subgraph(g, get_path_neigbours(g, path) \cup Range(path))]

\* the dict add_route stores
route_record(g, start_node, end_node, path) ==
    [start_node |-> start_node,
     end_node |-> end_node,
     path |-> path,
     route_graph |-> subgraph(g, Range(path)),
     route_and_neighbour_graph |->
         subgraph(g, get_path_neigbours(g, path) \cup Range(path))]

\* self.routes[route_name].update(value) when the name is registered
routes_store_update(rs, keys, route_name, value) ==
    [routes |-> SetItem(rs, route_name,
                        IF route_name \in DOMAIN rs
                        THEN [k \in (DOMAIN rs[route_name]) \cup (DOMAIN value) |->
                                 IF k \in DOMAIN value THEN value[k]
                                 ELSE rs[route_name][k]]
                        ELSE value),
     keys |-> IF route_name \in DOMAIN rs THEN keys ELSE Append(keys, route_name)]

\* self.routes[route_name] = value
routes_store(rs, keys, route_name, value) ==
    [routes |-> SetItem(rs, route_name, value),
     keys |-> IF route_name \in DOMAIN rs THEN keys ELSE Append(keys, route_name)]

\* add_route clearing the entry under the name before it looks up neighbours
add_route_effect_clears_first(op, route_name, start_node, end_node, path, raised_before) ==
    LET raised == IF raised_before # NoError THEN raised_before
                  ELSE add_route_raised(graph, path)
        stored == routes_store(routes, routes_keys, route_name,
                               route_record(graph, start_node, end_node, path))
    IN  /\ IF raised = NoError
           THEN /\ routes' = stored.routes
                /\ routes_keys' = stored.keys
           ELSE /\ routes' = [n \in (DOMAIN routes) \ {route_name} |-> routes[n]]
                /\ routes_keys' = SelectSeq(routes_keys,
                                            LAMBDA k : k # route_name)
        /\ last' = Call(op, route_name,
                        IF raised = NoError THEN <<start_node, end_node, path>>
                        ELSE <<>>,
                        raised, NoneVal, <<>>, <<>>)
        /\ UNCHANGED <<graph, cache_file, fitness_func, fitness_vars>>

\* the effect of add_route on the registry, shared with add_shortest_path_route
add_route_effect(op, route_name, start_node, end_node, path, raised_before) ==
    LET raised == IF raised_before # NoError THEN raised_before
                  ELSE add_route_raised(graph, path)
        stored == routes_store(routes, routes_keys, route_name,
                               route_record(graph, start_node, end_node, path))
    IN  /\ IF raised = NoError
           THEN /\ routes' = stored.routes
                /\ routes_keys' = stored.keys
           ELSE UNCHANGED <<routes, routes_keys>>
        /\ last' = Call(op, route_name,
                        IF raised = NoError THEN <<start_node, end_node, path>>
                        ELSE <<>>,
                        raised, NoneVal, <<>>, <<>>)
        /\ UNCHANGED <<graph, cache_file, fitness_func, fitness_vars>>

add_route(route_name, start_node, end_node, path) ==
    add_route_effect("add_route", route_name, start_node, end_node, path, NoError)

add_shortest_path_route(route_name, start_node, end_node, no_path_raises) ==
    LET sp == shortest_path_route(graph, start_node, end_node, no_path_raises)
        \* add_route(name, s, e, None) fails iterating over None
        raised == IF sp.raised # NoError THEN sp.raised
                  ELSE IF sp.is_none THEN "TypeError" ELSE NoError
    IN  add_route_effect("add_shortest_path_route", route_name, start_node,
                         end_node, sp.path, raised)

\* get_route returning None for every name
get_route_return_none(rs, route_name) ==
    IF route_name \notin DOMAIN rs THEN NoneVal ELSE NoneVal

\* what get_route returns
get_route_return(rs, route_name) ==
    IF route_name \notin DOMAIN rs THEN NoneVal ELSE rs[route_name]

get_route(route_name) ==
    /\ last' = Call("get_route", route_name, <<>>, NoError,
                    get_route_return(routes, route_name), <<>>, <<>>)
    /\ UNCHANGED <<registry_vars, fitness_vars>>

RECURSIVE calc_loop_skips_last(_, _, _, _)
\* the loop stopping one route early
calc_loop_skips_last(f, i, rs, calls) ==
    IF i >= Len(routes_keys)
    THEN [routes |-> rs, calls |-> calls, raised |-> NoError]
    ELSE LET route_name == routes_keys[i]
             route_attributes == rs[route_name]
         IN  calc_loop_skips_last(f, i + 1,
                       [rs EXCEPT ![route_name] =
                           SetItem(@, "fitness",
                                   apply_fitness_func(f, route_attributes))],
                       Append(calls, [name |-> route_name,
                                      arg |-> route_attributes,
                                      ret |-> apply_fitness_func(f, route_attributes)]))

RECURSIVE calc_loop_replaces_path(_, _, _, _)
\* the loop writing the fitness and emptying the path
calc_loop_replaces_path(f, i, rs, calls) ==
    IF i > Len(routes_keys)
    THEN [routes |-> rs, calls |-> calls, raised |-> NoError]
    ELSE LET route_name == routes_keys[i]
             route_attributes == rs[route_name]
         IN  calc_loop_replaces_path(f, i + 1,
                       [rs EXCEPT ![route_name] =
                           SetItem(SetItem(@, "path", <<>>), "fitness",
                                   apply_fitness_func(f, route_attributes))],
                       Append(calls, [name |-> route_name,
                                      arg |-> route_attributes,
                                      ret |-> apply_fitness_func(f, route_attributes)]))

RECURSIVE calc_loop_rolls_back(_, _, _, _)
\* the loop undoing the fitness values of the pass when the function raises
calc_loop_rolls_back(f, i, rs, calls) ==
    IF i > Len(routes_keys)
    THEN [routes |-> rs, calls |-> calls, raised |-> NoError]
    ELSE LET route_name == routes_keys[i]
             route_attributes == rs[route_name]
         IN  IF fitness_func_raised(f, route_attributes) # NoError
             THEN [routes |-> routes,
                   calls |-> Append(calls, [name |-> route_name,
                                            arg |-> route_attributes,
                                            ret |-> NoneVal]),
                   raised |-> fitness_func_raised(f, route_attributes)]
             ELSE
             calc_loop_rolls_back(f, i + 1,
                       [rs EXCEPT ![route_name] =
                           SetItem(@, "fitness",
                                   apply_fitness_func(f, route_attributes))],
                       Append(calls, [name |-> route_name,
                                      arg |-> route_attributes,
                                      ret |-> apply_fitness_func(f, route_attributes)]))

RECURSIVE calc_loop(_, _, _, _)
\* for route_name, route_attributes in self.routes.items():
\*     route_attributes["fitness"] = self.fitness_func(route_attributes)
\* an exception of the fitness function ends the loop
calc_loop(f, i, rs, calls) ==
    IF i > Len(routes_keys)
    THEN [routes |-> rs, calls |-> calls, raised |-> NoError]
    ELSE LET route_name == routes_keys[i]
             route_attributes == rs[route_name]
         IN  IF fitness_func_raised(f, route_attributes) # NoError
             THEN [routes |-> rs,
                   calls |-> Append(calls, [name |-> route_name,
                                            arg |-> route_attributes,
                                            ret |-> NoneVal]),
                   raised |-> fitness_func_raised(f, route_attributes)]
             ELSE
             calc_loop(f, i + 1,
                       [rs EXCEPT ![route_name] =
                           SetItem(@, "fitness",
                                   apply_fitness_func(f, route_attributes))],
                       Append(calls, [name |-> route_name,
                                      arg |-> route_attributes,
                                      ret |-> apply_fitness_func(f, route_attributes)]))

\* the warning branch falling through into the loop: None is called
calc_fitness_for_routes_no_return ==
    /\ IF fitness_func = "None"
       THEN /\ last' = Call("calc_fitness_for_routes", "", <<>>,
                            IF routes_keys = <<>> THEN NoError ELSE "TypeError",
                            NoneVal, <<"Fitness function not registered.">>, <<>>)
            /\ UNCHANGED routes
       ELSE LET done == calc_loop(fitness_func, 1, routes, <<>>)
            IN  /\ routes' = done.routes
                /\ last' = Call("calc_fitness_for_routes", "", <<>>,
                                done.raised, NoneVal, <<>>, done.calls)
    /\ UNCHANGED <<graph, cache_file, routes_keys, fitness_func, fitness_vars>>

calc_fitness_for_routes ==
    /\ IF fitness_func = "None"
       THEN /\ last' = Call("calc_fitness_for_routes", "", <<>>, NoError, NoneVal,
                            <<"Fitness function not registered.">>, <<>>)
            /\ UNCHANGED routes
       ELSE LET done == calc_loop(fitness_func, 1, routes, <<>>)
            IN  /\ routes' = done.routes
                /\ last' = Call("calc_fitness_for_routes", "", <<>>,
                                done.raised, NoneVal, <<>>, done.calls)
    /\ UNCHANGED <<graph, cache_file, routes_keys, fitness_func, fitness_vars>>

Next ==
    \/ load_graph
    \/ \E f \in FitnessFuncs \cup {"None"} : register_fitness_func(f)
    \/ \E n \in Names, se \in EndpointInputs, p \in PathInputs :
           add_route(n, se[1], se[2], p)
    \/ \E n \in Names, se \in ShortestInputs, b \in BOOLEAN :
           add_shortest_path_route(n, se[1], se[2], b)
    \/ \E n \in Names : get_route(n)
    \/ calc_fitness_for_routes

Spec == Init /\ [][Next]_vars

(***************************************************************************)
(* The caller changing graph objects in place: the source graph            *)
(* (manager.graph.remove_edge) and a route's route_graph.                  *)
(***************************************************************************)
\* a graph made by G.subgraph(nodes), without .copy(), read after the graph
\* object other has changed: a view follows the graph it was taken from
copy_read_view(g, other) == subgraph(other, g.nodes)

\* a graph made by G.subgraph(nodes).copy(), read after the graph object
\* other has changed: the copy has its own nodes and edges
copy_read(g, other) == g

\* the caller removes the edge e from the source graph
source_graph_changes(e) ==
    /\ graph # NoneVal
    /\ e \in graph.edges
    /\ graph' = [graph EXCEPT !.edges = @ \ {e}]
    /\ routes' = [n \in DOMAIN routes |->
                     [routes[n] EXCEPT
                        !["route_graph"] = copy_read(@, graph'),
                        !["route_and_neighbour_graph"] = copy_read(@, graph')]]
    /\ last' = Call("graph.remove_edge", "", <<>>, NoError, NoneVal, <<>>, <<>>)
    /\ UNCHANGED <<cache_file, routes_keys, fitness_func, fitness_vars>>

\* the caller removes the edge e from the route_graph of the route route_name
route_graph_changes(route_name, e) ==
    /\ route_name \in DOMAIN routes
    /\ e \in routes[route_name]["route_graph"].edges
    /\ LET changed == [routes[route_name]["route_graph"] EXCEPT
                          !.edges = @ \ {e}]
       IN  routes' = [routes EXCEPT ![route_name] =
                         [@ EXCEPT
                            !["route_graph"] = changed,
                            !["route_and_neighbour_graph"] =
                                copy_read(@, changed)]]
    /\ last' = Call("route_graph.remove_edge", route_name, <<>>, NoError,
                    NoneVal, <<>>, <<>>)
    /\ UNCHANGED <<graph, cache_file, routes_keys, fitness_func, fitness_vars>>

\* (start_node, end_node) of the routes registered while graphs change
SnapshotInputs == {<<1, 3>>, <<2, 2>>}

\* the name the routes are registered under while graphs change
SnapshotNames == {"foo"}

NextSnapshot ==
    \/ load_graph
    \/ register_fitness_func("path_len")
    \/ \E n \in SnapshotNames : add_route(n, 2, 2, <<2>>)
    \/ \E n \in SnapshotNames, se \in SnapshotInputs :
           add_shortest_path_route(n, se[1], se[2], TRUE)
    \/ \E n \in SnapshotNames : get_route(n)
    \/ calc_fitness_for_routes
    \/ \E e \in OsmGraph.edges : source_graph_changes(e)
    \/ \E n \in SnapshotNames, e \in OsmGraph.edges : route_graph_changes(n, e)

SpecSnapshot == Init /\ [][NextSnapshot]_vars

(***************************************************************************)
(* Scoring passes with a fitness function that can raise.                  *)
(***************************************************************************)
\* fitness functions a caller registers: len(r["path"]) and r["path"][0],
\* which raises IndexError on an empty path
PassFitnessFuncs == {"path_len", "first_node"}

\* paths a caller passes to add_route: empty, or the node 2
PassPaths == {<<>>, <<2>>}

NextPass ==
    \/ load_graph
    \/ \E f \in PassFitnessFuncs : register_fitness_func(f)
    \/ \E n \in Names, se \in EndpointInputs, p \in PassPaths :
           add_route(n, se[1], se[2], p)
    \/ calc_fitness_for_routes

SpecPass == Init /\ [][NextPass]_vars

(***************************************************************************)
(* Fitness on its own: the caller sets weights, the calculators return     *)
(* scores, calculate_fitness combines them.                                *)
(***************************************************************************)
\* number of weights set by the caller plus calculators not returning the stub 0
Changed(sc, asg) ==
    Cardinality(asg) + Cardinality({c \in CriteriaSet : sc[c] # StubScores[c]})

\* fitness.weights[criterion] = weight
set_weight(criterion, weight) ==
    /\ Changed(scores, assigned \cup {criterion}) <= MaxChanged
    /\ weights' = [weights EXCEPT ![criterion] = weight]
    /\ assigned' = assigned \cup {criterion}
    /\ last' = Call("set_weight", "", <<>>, NoError, NoneVal, <<>>, <<>>)
    /\ UNCHANGED <<registry_vars, scores>>

\* the calculator of criterion returns value from now on
calculator_returns(criterion, value) ==
    /\ Changed([scores EXCEPT ![criterion] = value], assigned) <= MaxChanged
    /\ scores' = [scores EXCEPT ![criterion] = value]
    /\ last' = Call("calculator_returns", "", <<>>, NoError, NoneVal, <<>>, <<>>)
    /\ UNCHANGED <<registry_vars, weights, assigned>>

\* fitness.calculate_fitness(route_attributes)
evaluate_fitness ==
    /\ last' = Call("calculate_fitness", "", <<>>, NoError,
                    calculate_fitness(scores, weights), <<>>, <<>>)
    /\ UNCHANGED <<registry_vars, fitness_vars>>

NextFitness ==
    \/ \E c \in CriteriaSet, w \in WeightValues : set_weight(c, w)
    \/ \E c \in CriteriaSet, v \in ScoreValues : calculator_returns(c, v)
    \/ evaluate_fitness

SpecFitness == Init /\ [][NextFitness]_vars

(***************************************************************************)
(* Score calculators (score_calcs.py): calculate_distance_score.           *)
(*                                                                         *)
(* Arguments are Python values: integers Fin(n), the float 1e300 (Huge),   *)
(* the IEEE specials, and a string.  Scores are fractions num/den.  On the *)
(* integer grid the quotient is kept exact; binary64 rounds it by at most  *)
(* one part in 2^53.  With 1e300 the operations are the binary64 ones:     *)
(* 1e300 - n = 1e300, n + 1e300 = 1e300, 1e300 / 1e300 = 1.0.              *)
(***************************************************************************)
\* largest integer argument of calculate_distance_score
MaxDistance == 4

\* the float 1e300
Huge == [kind |-> "huge", val |-> 0]

\* the str "foo"
Str == [kind |-> "str", val |-> 0]

Frac(n, d) == [num |-> n, den |-> d]

FracLt(a, b) == a.num * b.den < b.num * a.den

FracLe(a, b) == a.num * b.den <= b.num * a.den

FracEq(a, b) == a.num * b.den = b.num * a.den

\* a * b
FracMul(a, b) == Frac(a.num * b.num, a.den * b.den)

\* isinstance(x, numbers.Number)
IsNumber(x) == x.kind # "str"

\* position of a kind on the number line
Rank(x) ==
    CASE x.kind = "-inf"   -> 0
      [] x.kind = "finite" -> 1
      [] x.kind = "huge"   -> 2
      [] x.kind = "+inf"   -> 3

\* a < b on floats and ints: False whenever a NaN is involved
Lt(a, b) ==
    IF a.kind = "nan" \/ b.kind = "nan" THEN FALSE
    ELSE IF a.kind = "finite" /\ b.kind = "finite" THEN a.val < b.val
    ELSE Rank(a) < Rank(b)

\* a penalty factor above 1
DISTANCE_PENALTY_FACTOR_inverted == Frac(100, 1)

\* PENALTY_FACTOR = 0.01
DISTANCE_PENALTY_FACTOR == Frac(1, 100)

\* the checks of lines 30-61, the test on actual_dist admitting 0
distance_score_raised_accepts_zero(desired_dist, actual_dist, max_variance) ==
    IF ~IsNumber(desired_dist) THEN "ValueError"
    ELSE IF ~IsNumber(actual_dist) THEN "ValueError"
    ELSE IF ~IsNumber(max_variance) THEN "ValueError"
    ELSE IF ~(Lt(Fin(0), max_variance) /\ Lt(max_variance, desired_dist))
    THEN "ValueError"
    ELSE IF ~(~Lt(actual_dist, Fin(0)) /\ actual_dist.kind # "nan"
              /\ Lt(actual_dist, PosInf))
    THEN "ValueError"
    ELSE IF ~(Lt(Fin(0), desired_dist) /\ Lt(desired_dist, PosInf))
    THEN "ValueError"
    ELSE NoError

\* the exception calculate_distance_score raises, or NoError
distance_score_raised(desired_dist, actual_dist, max_variance) ==
    IF ~IsNumber(desired_dist) THEN "ValueError"
    ELSE IF ~IsNumber(actual_dist) THEN "ValueError"
    ELSE IF ~IsNumber(max_variance) THEN "ValueError"
    ELSE IF ~(Lt(Fin(0), max_variance) /\ Lt(max_variance, desired_dist))
    THEN "ValueError"
    ELSE IF ~(Lt(Fin(0), actual_dist) /\ Lt(actual_dist, PosInf))
    THEN "ValueError"
    ELSE IF ~(Lt(Fin(0), desired_dist) /\ Lt(desired_dist, PosInf))
    THEN "ValueError"
    ELSE NoError

\* abs(a - b), a and b finite
AbsDiff(a, b) ==
    IF a.kind = "finite" /\ b.kind = "finite"
    THEN Fin(IF a.val >= b.val THEN a.val - b.val ELSE b.val - a.val)
    ELSE IF a.kind = "huge" /\ b.kind = "huge" THEN Fin(0)
    ELSE Huge

\* 1 - actual_variance / (max_variance + actual_variance)
distance_base_score(max_variance, actual_variance) ==
    IF actual_variance.kind = "huge"
    THEN Frac(1 - 1, 1)
    ELSE Frac((max_variance.val + actual_variance.val) - actual_variance.val,
              max_variance.val + actual_variance.val)

\* the score with the penalty applied from deviation = max_variance on
distance_score_value_penalty_at_boundary(desired_dist, actual_dist, max_variance) ==
    LET actual_variance == AbsDiff(desired_dist, actual_dist)
        score == distance_base_score(max_variance, actual_variance)
    IN  IF ~Lt(actual_variance, max_variance)
        THEN [score |-> FracMul(score, DISTANCE_PENALTY_FACTOR),
              warnings |-> <<"Route length is longer than the required distance">>]
        ELSE [score |-> score, warnings |-> <<>>]

\* the score with the deviation taken with its sign
distance_score_value_signed(desired_dist, actual_dist, max_variance) ==
    LET actual_variance == Fin(desired_dist.val - actual_dist.val)
        score == distance_base_score(max_variance, actual_variance)
    IN  IF Lt(max_variance, actual_variance)
        THEN [score |-> FracMul(score, DISTANCE_PENALTY_FACTOR),
              warnings |-> <<"Route length is longer than the required distance">>]
        ELSE [score |-> score, warnings |-> <<>>]

\* lines 63-76 of calculate_distance_score, the arguments being valid
distance_score_value(desired_dist, actual_dist, max_variance) ==
    LET actual_variance == AbsDiff(desired_dist, actual_dist)
        score == distance_base_score(max_variance, actual_variance)
    IN  IF Lt(max_variance, actual_variance)
        THEN [score |-> FracMul(score, DISTANCE_PENALTY_FACTOR),
              warnings |-> <<"Route length is longer than the required distance">>]
        ELSE [score |-> score, warnings |-> <<>>]

\* calculate_distance_score(desired_dist, actual_dist, max_variance)
calculate_distance_score(desired_dist, actual_dist, max_variance) ==
    LET raised == distance_score_raised(desired_dist, actual_dist, max_variance)
    IN  IF raised # NoError
        THEN [raised |-> raised, score |-> NoneVal, warnings |-> <<>>]
        ELSE [raised |-> NoError,
              score |-> distance_score_value(desired_dist, actual_dist,
                                             max_variance).score,
              warnings |-> distance_score_value(desired_dist, actual_dist,
                                                max_variance).warnings]

\* arguments a caller passes
DistanceInputs ==
    {Fin(n) : n \in (0 - 1)..MaxDistance} \cup {Huge, PosInf, NegInf, NaN, Str}

\* test_calculate_distance_score: an 18 km route, 900 m variance
TableDesired == Fin(18000)

TableVariance == Fin(900)

TableActuals ==
    {Fin(18000), Fin(17775), Fin(17550), Fin(17100), Fin(16200),
     Fin(18225), Fin(18450), Fin(18900), Fin(19800)}

distance_score_call(desired_dist, actual_dist, max_variance) ==
    LET r == calculate_distance_score(desired_dist, actual_dist, max_variance)
    IN  /\ last' = Call("calculate_distance_score", "",
                        <<desired_dist, actual_dist, max_variance>>,
                        r.raised, r.score, r.warnings, <<>>)
        /\ UNCHANGED <<registry_vars, fitness_vars>>

NextDistance ==
    \/ \E d \in DistanceInputs, a \in DistanceInputs, v \in DistanceInputs :
           distance_score_call(d, a, v)
    \/ \E a \in TableActuals : distance_score_call(TableDesired, a, TableVariance)

SpecDistance == Init /\ [][NextDistance]_vars

(***************************************************************************)
(* Score calculators (score_calcs.py): calculate_road_type_score.          *)
(* Lengths are integers; the score is the exact fraction.                  *)
(***************************************************************************)
\* largest length recorded for one highway type
MaxLength == 2

OPTIMAL == 4

PREFER == 3

NEUTRAL == 2

AVOID == 1

PROHIBIT == 0

\* no penalty
ROAD_PENALTY_FACTOR_none == Frac(1, 1)

\* PENALTY_FACTOR = 0.1
ROAD_PENALTY_FACTOR == Frac(1, 10)

\* the keys of highway_weights, in the order of the dict
HighwayTypes ==
    <<"motorway", "trunk", "primary", "secondary", "tertiary", "unclassified",
      "motorway_link", "trunk_link", "primary_link", "secondary_link",
      "tertiary_link", "living_street", "service", "track", "bus_guideway",
      "road", "footway", "bridleway", "steps", "corridor", "path",
      "via_ferrata", "escape", "raceway", "pedestrian", "residential",
      "cycleway", "proposed", "construction">>

\* highway_weights with motorway preferred
highway_weights_motorway_preferred ==
    [h \in Range(HighwayTypes) |->
        IF h \in {"motorway_link", "bus_guideway", "bridleway",
                  "steps", "path", "via_ferrata", "escape", "raceway",
                  "proposed", "construction"} THEN PROHIBIT
        ELSE IF h \in {"trunk", "trunk_link"} THEN NEUTRAL
        ELSE IF h \in {"service", "track", "footway", "corridor", "pedestrian",
                       "cycleway"} THEN AVOID
        ELSE PREFER]

highway_weights ==
    [h \in Range(HighwayTypes) |->
        IF h \in {"motorway", "motorway_link", "bus_guideway", "bridleway",
                  "steps", "path", "via_ferrata", "escape", "raceway",
                  "proposed", "construction"} THEN PROHIBIT
        ELSE IF h \in {"trunk", "trunk_link"} THEN NEUTRAL
        ELSE IF h \in {"service", "track", "footway", "corridor", "pedestrian",
                       "cycleway"} THEN AVOID
        ELSE PREFER]

\* the loop of lines 144-157 from item i on
RECURSIVE road_type_loop(_, _, _)
road_type_loop(highway_lengths, i, acc) ==
    IF i > Len(HighwayTypes) THEN acc
    ELSE LET highway == HighwayTypes[i]
             weight == highway_weights[highway]
         IN  IF highway \in DOMAIN highway_lengths
             THEN road_type_loop(highway_lengths, i + 1,
                    [route_score |->
                        IF weight = PROHIBIT THEN acc.route_score
                        ELSE acc.route_score + weight * highway_lengths[highway],
                     length |-> acc.length + highway_lengths[highway],
                     prohibited_length |->
                        IF weight = PROHIBIT
                        THEN acc.prohibited_length + highway_lengths[highway]
                        ELSE acc.prohibited_length,
                     warnings |-> Append(acc.warnings, highway)])
             ELSE road_type_loop(highway_lengths, i + 1, acc)

\* lines 160-173, the division made whatever the length
road_type_result_unguarded(s) ==
    LET route_score == IF s.prohibited_length > 0
                       THEN FracMul(Frac(s.route_score, 1), ROAD_PENALTY_FACTOR)
                       ELSE Frac(s.route_score, 1)
    IN  IF s.length = 0
        THEN [raised |-> "ZeroDivisionError", score |-> NoneVal,
              warnings |-> s.warnings]
        ELSE [raised |-> NoError,
              score |-> Frac(route_score.num,
                             route_score.den * (s.length * OPTIMAL)),
              warnings |-> s.warnings]

\* lines 160-173: penalty, then normalisation by length * OPTIMAL
road_type_result(s) ==
    LET route_score == IF s.prohibited_length > 0
                       THEN FracMul(Frac(s.route_score, 1), ROAD_PENALTY_FACTOR)
                       ELSE Frac(s.route_score, 1)
    IN  IF s.length = 0
        THEN [raised |-> NoError, score |-> Frac(0, 1), warnings |-> s.warnings]
        ELSE [raised |-> NoError,
              score |-> Frac(route_score.num,
                             route_score.den * (s.length * OPTIMAL)),
              warnings |-> s.warnings]

\* calculate_road_type_score(highway_lengths)
calculate_road_type_score(highway_lengths) ==
    road_type_result(
        road_type_loop(highway_lengths, 1,
                       [route_score |-> 0, length |-> 0,
                        prohibited_length |-> 0, warnings |-> <<>>]))

\* highway types a route reports: three of the table, one outside it
RoadInputTypes == {"primary", "service", "motorway", "hovercraft"}

RoadInputs == UNION {[S -> 0..MaxLength] : S \in SUBSET RoadInputTypes}

road_type_score_call(highway_lengths) ==
    LET r == calculate_road_type_score(highway_lengths)
    IN  /\ last' = Call("calculate_road_type_score", "", <<highway_lengths>>,
                        r.raised, r.score, r.warnings, <<>>)
        /\ UNCHANGED <<registry_vars, fitness_vars>>

NextRoadType == \E hl \in RoadInputs : road_type_score_call(hl)

SpecRoadType == Init /\ [][NextRoadType]_vars

(***************************************************************************)
(* Score calculators (score_calcs.py):                                     *)
(* calculate_path_lengths_by_edge_attribute.                               *)
(***************************************************************************)
\* largest number of nodes in a path passed to the aggregation
MaxWalkLen == 3

\* a multigraph with parallel edges: 1 -> 2 has its shortest edge second,
\* 2 -> 3 has two edges of equal length
ParallelGraph ==
    [multigraph |-> TRUE,
     nodes |-> {1, 2, 3},
     edges |-> {[u |-> 1, v |-> 2, key |-> 0, length |-> 10, highway |-> "primary"],
                [u |-> 1, v |-> 2, key |-> 1, length |-> 5, highway |-> "residential"],
                [u |-> 2, v |-> 3, key |-> 0, length |-> 20, highway |-> "residential"],
                [u |-> 2, v |-> 3, key |-> 1, length |-> 20, highway |-> "primary"],
                [u |-> 2, v |-> 1, key |-> 0, length |-> 7, highway |-> "primary"]}]

\* a graph that is not a multigraph
PlainGraph ==
    [multigraph |-> FALSE,
     nodes |-> {1, 2, 3},
     edges |-> {[u |-> 1, v |-> 2, key |-> 0, length |-> 10, highway |-> "primary"],
                [u |-> 2, v |-> 3, key |-> 0, length |-> 20, highway |-> "residential"],
                [u |-> 3, v |-> 1, key |-> 0, length |-> 4, highway |-> "primary"]}]

LengthsGraphs == {ParallelGraph, PlainGraph}

\* nodes of the paths passed; 4 is in neither graph
WalkNodes == {1, 2, 3, 4}

WalkInputs == UNION {[1..k -> WalkNodes] : k \in 0..MaxWalkLen}

\* nx.is_path(G, path): every consecutive pair is joined by an edge; a path
\* of fewer than two nodes has no pair to test
is_path(G, path) ==
    \A i \in 1..(Len(path) - 1) :
        /\ path[i] \in G.nodes
        /\ \E e \in G.edges : e.u = path[i] /\ e.v = path[i + 1]

\* G[node][nbr].values(): the edges node -> nbr in key order
edge_data(G, node, nbr) ==
    LET es == {e \in G.edges : e.u = node /\ e.v = nbr}
    IN  [k \in 1..Cardinality(es) |-> CHOOSE e \in es : e.key = k - 1]

\* the inner loop with <= in place of <: the last of the shortest edges
RECURSIVE shortest_parallel_last(_, _, _, _, _)
shortest_parallel_last(vs, j, edge_attribute, length, highway) ==
    IF j > Len(vs) THEN [length |-> length, highway |-> highway]
    ELSE IF "length" \in DOMAIN vs[j] /\ ~Lt(length, Fin(vs[j]["length"]))
    THEN shortest_parallel_last(vs, j + 1, edge_attribute,
                                Fin(vs[j]["length"]), vs[j][edge_attribute])
    ELSE shortest_parallel_last(vs, j + 1, edge_attribute, length, highway)

\* the inner loop of lines 210-217 from the j-th parallel edge on
RECURSIVE shortest_parallel(_, _, _, _, _)
shortest_parallel(vs, j, edge_attribute, length, highway) ==
    IF j > Len(vs) THEN [length |-> length, highway |-> highway]
    ELSE IF "length" \in DOMAIN vs[j] /\ Lt(Fin(vs[j]["length"]), length)
    THEN shortest_parallel(vs, j + 1, edge_attribute,
                           Fin(vs[j]["length"]), vs[j][edge_attribute])
    ELSE shortest_parallel(vs, j + 1, edge_attribute, length, highway)

\* attribute_lengths[k] += x on a defaultdict(float)
add_length(attribute_lengths, k, x) ==
    SetItem(attribute_lengths, k,
            IF k \in DOMAIN attribute_lengths THEN attribute_lengths[k] + x
            ELSE x)

\* the loop of lines 208-225 from the i-th hop on; highway keeps its value
\* from one hop to the next
RECURSIVE path_lengths_loop(_, _, _, _, _, _)
path_lengths_loop(G, path, edge_attribute, i, attribute_lengths, highway) ==
    IF i >= Len(path) THEN attribute_lengths
    ELSE IF G.multigraph
    THEN LET found == shortest_parallel(edge_data(G, path[i], path[i + 1]), 1,
                                        edge_attribute, PosInf, highway)
         IN  path_lengths_loop(G, path, edge_attribute, i + 1,
                 IF found.length # PosInf
                 THEN add_length(attribute_lengths, found.highway,
                                 found.length.val)
                 ELSE attribute_lengths,
                 found.highway)
    ELSE LET data == edge_data(G, path[i], path[i + 1])[1]
         IN  path_lengths_loop(G, path, edge_attribute, i + 1,
                 IF "length" \in DOMAIN data
                 THEN add_length(attribute_lengths, data[edge_attribute],
                                 data["length"])
                 ELSE attribute_lengths,
                 highway)

\* calculate_path_lengths_by_edge_attribute(G, path, edge_attribute)
calculate_path_lengths_by_edge_attribute(G, path, edge_attribute) ==
    IF ~is_path(G, path)
    THEN [raised |-> "NetworkXNoPath", ret |-> NoneVal]
    ELSE [raised |-> NoError,
          ret |-> path_lengths_loop(G, path, edge_attribute, 1, EmptyDict,
                                    NoneVal)]

path_lengths_call(G, path, edge_attribute) ==
    LET r == calculate_path_lengths_by_edge_attribute(G, path, edge_attribute)
    IN  /\ last' = Call("calculate_path_lengths_by_edge_attribute", "",
                        <<G, path, edge_attribute>>, r.raised, r.ret, <<>>, <<>>)
        /\ UNCHANGED <<registry_vars, fitness_vars>>

NextPathLengths ==
    \E G \in LengthsGraphs, path \in WalkInputs : path_lengths_call(G, path, "highway")

SpecPathLengths == Init /\ [][NextPathLengths]_vars

(***************************************************************************)
(* The Fitness constructor (fitness.py) and its checks on the desired      *)
(* distance and the distance variance.                                     *)
(***************************************************************************)
MAX_ROUTE_DISTANCE == 1500

MIN_ROUTE_DISTANCE == 1

MAX_DISTANCE_VARIANCE == 3000

MIN_DISTANCE_VARIANCE == 0

\* a <= b on floats and ints
Le(a, b) == Lt(a, b) \/ (a.kind # "nan" /\ a = b)

\* Fitness._is_valid_distance
Fitness_is_valid_distance(x) ==
    IF ~IsNumber(x) THEN FALSE
    ELSE Le(Fin(MIN_ROUTE_DISTANCE), x) /\ Le(x, Fin(MAX_ROUTE_DISTANCE))

\* Fitness._is_valid_dist_variance
Fitness_is_valid_dist_variance(x) ==
    IF ~IsNumber(x) THEN FALSE
    ELSE Le(Fin(MIN_DISTANCE_VARIANCE), x) /\ Le(x, Fin(MAX_DISTANCE_VARIANCE))

\* the exception Fitness(d, v, 0.05, 0.05) raises, or NoError
Fitness_init_raised(d, v) ==
    IF ~Fitness_is_valid_distance(d) THEN "ValueError"
    ELSE IF ~Fitness_is_valid_dist_variance(v) THEN "ValueError"
    ELSE NoError

\* desired distances and variances a caller passes to the constructor
ConstructorDistances ==
    {Fin(0 - 1), Fin(0), Fin(1), Fin(2), Fin(1000), Fin(1500), Fin(1501),
     PosInf, NaN, Str}

ConstructorVariances ==
    {Fin(0 - 1), Fin(0), Fin(1), Fin(500), Fin(1000), Fin(3000), Fin(3001),
     PosInf, NaN, Str}

\* Fitness(d, v, 0.05, 0.05)
Fitness_init(d, v) ==
    /\ last' = Call("Fitness.__init__", "", <<d, v>>, Fitness_init_raised(d, v),
                    NoneVal, <<>>, <<>>)
    /\ UNCHANGED <<registry_vars, fitness_vars>>

NextFitnessInit ==
    \E d \in ConstructorDistances, v \in ConstructorVariances : Fitness_init(d, v)

SpecFitnessInit == Init /\ [][NextFitnessInit]_vars

(***************************************************************************)
(* Properties.                                                             *)
(***************************************************************************)
\* the keys add_route builds
RouteFields == {"start_node", "end_node", "path", "route_graph",
                "route_and_neighbour_graph"}

Scored(rs, n) == n \in DOMAIN rs /\ "fitness" \in DOMAIN rs[n]

RegistrationOps == {"add_route", "add_shortest_path_route"}

Registered(call) == call.op \in RegistrationOps /\ call.raised = NoError

\* sub is g restricted to exactly the nodes ns
InducedOn(sub, g, ns) ==
    /\ sub.nodes = ns
    /\ \A e \in g.edges : e \in sub.edges <=> (e.u \in ns /\ e.v \in ns)
    /\ sub.edges \subseteq g.edges

\* the nodes one hop after some node of path in g
OneHop(g, path) ==
    {x \in g.nodes : \E i \in DOMAIN path : \E e \in g.edges : e.u = path[i] /\ e.v = x}

\* d without key k
Without(d, k) == [x \in (DOMAIN d) \ {k} |-> d[x]]

\* C1: after a successful add_route(name, start_node, end_node, path), get_route(name)
\* returns a record whose start_node, end_node and path are the values passed.
C1_RoundTrip ==
    (last.op = "add_route" /\ last.raised = NoError) =>
        LET r == get_route_return(routes, last.name)
        IN  /\ r # NoneVal
            /\ r["start_node"] = last.args[1]
            /\ r["end_node"] = last.args[2]
            /\ r["path"] = last.args[3]

\* add_route("..", 1, 3, [2, 2]) has succeeded
C1_Witness ==
    /\ last.op = "add_route" /\ last.raised = NoError
    /\ last.args = <<1, 3, <<2, 2>>>>
    /\ routes[last.name]["path"] = <<2, 2>>

\* C2: after add_route (called directly or by add_shortest_path_route) route_graph is
\* the source graph induced on the nodes of path, and route_and_neighbour_graph is the
\* source graph induced on path plus every neighbour of a path node, no other node.
C2_DerivedGraphs ==
    Registered(last) =>
        LET r == routes[last.name]
            path == last.args[3]
        IN  /\ InducedOn(r["route_graph"], graph, Range(path))
            /\ InducedOn(r["route_and_neighbour_graph"], graph,
                         Range(path) \cup OneHop(graph, path))

\* add_route with path [2, 2]: node 2 once, its successor 3 added, its predecessor 1 not
C2_Witness ==
    /\ last.op = "add_route" /\ last.raised = NoError
    /\ last.args[3] = <<2, 2>>
    /\ routes[last.name]["route_graph"].nodes = {2}
    /\ routes[last.name]["route_and_neighbour_graph"].nodes = {2, 3}
    /\ routes[last.name]["route_and_neighbour_graph"].edges # {}

\* C3: get_route(name) never raises and leaves the registry unchanged; it returns
\* None for a name that is not registered and the name's record for a registered one.
C3_GetRoute ==
    /\ [](last.op = "get_route" =>
            /\ last.raised = NoError
            /\ (last.name \notin DOMAIN routes => last.ret = NoneVal)
            /\ (last.name \in DOMAIN routes => last.ret = routes[last.name]))
    /\ [][last'.op = "get_route" => UNCHANGED <<registry_vars, fitness_vars>>]_vars

\* get_route of a missing name returned None while another name is registered
C3_Witness ==
    /\ last.op = "get_route"
    /\ last.name \notin DOMAIN routes
    /\ last.ret = NoneVal
    /\ DOMAIN routes # {}

\* C4: add_route on a registered name replaces the record: the new record has exactly
\* the five keys built by the call, with the values of the call, and no fitness; the
\* records under other names and the set of names are unchanged.
C4_Overwrite ==
    [][(last'.op = "add_route" /\ last'.raised = NoError /\ last'.name \in DOMAIN routes) =>
          LET r == routes'[last'.name]
          IN  /\ DOMAIN r = RouteFields
              /\ ~Scored(routes', last'.name)
              /\ r["start_node"] = last'.args[1]
              /\ r["end_node"] = last'.args[2]
              /\ r["path"] = last'.args[3]
              /\ InducedOn(r["route_graph"], graph, Range(last'.args[3]))
              /\ InducedOn(r["route_and_neighbour_graph"], graph,
                           Range(last'.args[3]) \cup OneHop(graph, last'.args[3]))
              /\ DOMAIN routes' = DOMAIN routes
              /\ routes_keys' = routes_keys
              /\ \A m \in (DOMAIN routes) \ {last'.name} : routes'[m] = routes[m]]_vars

\* the first registered name was registered again by add_route after the second name
\* had been scored: the second keeps its fitness, the first has none
C4_Witness ==
    /\ last.op = "add_route" /\ last.raised = NoError
    /\ Len(routes_keys) = 2
    /\ last.name = routes_keys[1]
    /\ Scored(routes, routes_keys[2])
    /\ ~Scored(routes, routes_keys[1])

\* C5 as stated: once the route under a name has a fitness, the route under that name
\* has a fitness in every later state.
C5_NeverUnscored ==
    [][\A n \in Names : Scored(routes, n) => Scored(routes', n)]_vars

\* C5 amended: a route with a fitness keeps having one across every call except a
\* successful add_route or add_shortest_path_route under its own name, which replaces
\* it by a new record without fitness.
C5_UnscoredOnlyByRegistration ==
    [][\A n \in Names :
          (Scored(routes, n) /\ ~(Registered(last') /\ last'.name = n))
              => Scored(routes', n)]_vars

\* a route registered under one name while the other name's route stays scored
C5_Witness ==
    /\ Registered(last)
    /\ \E n \in Names : n # last.name /\ Scored(routes, n)

\* C6: calc_fitness_for_routes with no fitness function registered changes no route
\* record (an unset fitness stays unset), logs the warning once, raises nothing and
\* calls no fitness function.
C6_NotConfigured ==
    [][(last'.op = "calc_fitness_for_routes" /\ fitness_func = "None") =>
          /\ routes' = routes
          /\ routes_keys' = routes_keys
          /\ last'.warnings = <<"Fitness function not registered.">>
          /\ last'.raised = NoError
          /\ last'.calls = <<>>]_vars

\* the pass ran with no function registered over an unscored route
C6_Witness ==
    /\ last.op = "calc_fitness_for_routes"
    /\ fitness_func = "None"
    /\ last.warnings = <<"Fitness function not registered.">>
    /\ \E n \in DOMAIN routes : ~Scored(routes, n)

C8_WriteBackFrame ==
    [][last'.op = "calc_fitness_for_routes" =>
          /\ DOMAIN routes' = DOMAIN routes
          /\ routes_keys' = routes_keys
          /\ \A n \in DOMAIN routes :
                /\ (DOMAIN routes'[n]) \ {"fitness"} = (DOMAIN routes[n]) \ {"fitness"}
                /\ \A k \in RouteFields : routes'[n][k] = routes[n][k]
          /\ graph' = graph
          /\ cache_file' = cache_file
          /\ fitness_func' = fitness_func
          /\ UNCHANGED fitness_vars]_vars

\* a pass wrote a fitness on a route with a non-empty path and derived graph
C8_Witness ==
    /\ last.op = "calc_fitness_for_routes"
    /\ fitness_func # "None"
    /\ \E n \in DOMAIN routes :
          /\ Scored(routes, n)
          /\ routes[n]["path"] # <<>>
          /\ routes[n]["route_and_neighbour_graph"].edges # {}

\* the criteria whose negative infinity rejects the route
HardFail(sc) == sc["desired_distance"] = NegInf \/ sc["uphill_sections"] = NegInf

\* C9: when the desired_distance score or the uphill_sections score is negative
\* infinity, calculate_fitness returns negative infinity, whatever the weights
\* (a weight of 0 included) and the other scores.
C9_HardFail ==
    (last.op = "calculate_fitness" /\ HardFail(scores)) => last.ret = NegInf

\* a hard-fail criterion at negative infinity carrying weight 0, another score at 1
C9_Witness ==
    /\ last.op = "calculate_fitness"
    /\ \E c \in {"desired_distance", "uphill_sections"} :
          scores[c] = NegInf /\ weights[c] = 0
    /\ \E c \in CriteriaSet : scores[c] = Fin(1)
    /\ last.ret = NegInf

\* the weight a criterion counts with: the caller's, or 1
EffectiveWeight(c) == IF c \in assigned THEN weights[c] ELSE 1

RECURSIVE SumOver(_)
\* sum of weight x score over the criteria in S
SumOver(S) ==
    IF S = {} THEN Fin(0)
    ELSE LET c == CHOOSE x \in S : TRUE
         IN  FAdd(FMul(EffectiveWeight(c), scores[c]), SumOver(S \ {c}))

\* C10: when no hard-fail criterion is negative infinity, calculate_fitness returns
\* the sum over the eleven criteria of weight x score, a criterion the caller has not
\* weighted counting with weight 1.
C10_WeightedSum ==
    (last.op = "calculate_fitness" /\ ~HardFail(scores)) =>
        last.ret = SumOver(CriteriaSet)

\* one criterion weighted 2 and one left at the default both score 1: fitness 3
C10_Witness ==
    /\ last.op = "calculate_fitness"
    /\ ~HardFail(scores)
    /\ \E c \in assigned : weights[c] = 2 /\ scores[c] = Fin(1)
    /\ \E c \in CriteriaSet \ assigned : scores[c] = Fin(1)
    /\ last.ret = Fin(3)

RECURSIVE SumLengths(_)
SumLengths(E) ==
    IF E = {} THEN 0
    ELSE LET e == CHOOSE x \in E : TRUE IN e.length + SumLengths(E \ {e})

\* the distance measured on a route: the edge lengths of its route_graph
MeasuredDistance(r) == SumLengths(r["route_graph"].edges)

Deviation(r) ==
    IF MeasuredDistance(r) >= distance THEN MeasuredDistance(r) - distance
    ELSE distance - MeasuredDistance(r)

\* a < b on fitness values
FitnessLess(a, b) ==
    \/ a.kind = "-inf" /\ b.kind = "finite"
    \/ a.kind = "finite" /\ b.kind = "finite" /\ a.val < b.val

\* C11: after a scoring pass with Fitness.calculate_fitness, a route whose
\* measured distance deviates from the desired distance by more than the
\* allowed variance has a total fitness strictly less than a route within
\* tolerance (every other criterion scores the same on both).
C11_BeyondVarianceScoresLess ==
    (last.op = "calc_fitness_for_routes" /\ last.raised = NoError
        /\ fitness_func = "calculate_fitness") =>
        \A n \in DOMAIN routes : \A m \in DOMAIN routes :
            (Deviation(routes[n]) > dist_variance
                /\ Deviation(routes[m]) <= dist_variance) =>
                FitnessLess(routes[n]["fitness"], routes[m]["fitness"])

ValidDistanceCall ==
    /\ last.op = "calculate_distance_score"
    /\ \A i \in 1..3 : last.args[i].kind \in {"finite", "huge"}
    /\ \A i \in 1..3 : Lt(Fin(0), last.args[i])
    /\ Lt(last.args[3], last.args[1])

\* |desired - actual| of the last call
LastDeviation == AbsDiff(last.args[1], last.args[2])

\* the result of the last call, given what the deviation is
DistanceScoreAsSpecified ==
    /\ last.raised = NoError
    /\ LastDeviation.kind = "finite" /\ LastDeviation.val <= last.args[3].val =>
          /\ FracEq(last.ret, Frac(last.args[3].val,
                                   last.args[3].val + LastDeviation.val))
          /\ last.warnings = <<>>
    /\ LastDeviation.kind = "finite" /\ LastDeviation.val = 0 =>
          FracEq(last.ret, Frac(1, 1))
    /\ LastDeviation.kind = "finite" /\ LastDeviation.val = last.args[3].val =>
          FracEq(last.ret, Frac(1, 2))
    /\ LastDeviation.kind = "finite" /\ LastDeviation.val > last.args[3].val =>
          /\ FracEq(last.ret, Frac(last.args[3].val,
                                   100 * (last.args[3].val + LastDeviation.val)))
          /\ last.warnings # <<>>
    /\ last.ret.den > 0
    /\ FracLe(last.ret, Frac(1, 1))

C14_Symmetric ==
    (ValidDistanceCall /\ last.args[1].kind = "finite"
        /\ last.args[2].kind = "finite" /\ last.args[2].val < last.args[1].val) =>
        LET mirrored == calculate_distance_score(
                            last.args[1],
                            Fin(2 * last.args[1].val - last.args[2].val),
                            last.args[3])
        IN  /\ last.raised = NoError
            /\ mirrored.raised = NoError
            /\ FracEq(mirrored.score, last.ret)
            /\ mirrored.warnings = last.warnings

\* a call two under the target with variance one: penalised on both sides
C14_Witness ==
    /\ ValidDistanceCall
    /\ last.args = <<Fin(3), Fin(1), Fin(1)>>
    /\ last.raised = NoError
    /\ last.ret.num * 300 = last.ret.den
    /\ calculate_distance_score(Fin(3), Fin(5), Fin(1)).score.num * 300
           = calculate_distance_score(Fin(3), Fin(5), Fin(1)).score.den

IsFinite(x) == x.kind \in {"finite", "huge"}

\* the arguments the specification lists as invalid
InvalidDistanceArgs(desired_dist, actual_dist, max_variance) ==
    \/ \E x \in {desired_dist, actual_dist, max_variance} : x.kind = "str"
    \/ \E x \in {desired_dist, actual_dist, max_variance} :
          x.kind \in {"+inf", "-inf", "nan"}
    \/ /\ \A x \in {desired_dist, actual_dist, max_variance} : IsFinite(x)
       /\ \/ max_variance.kind = "finite" /\ max_variance.val <= 0
          \/ ~Lt(max_variance, desired_dist)
          \/ actual_dist.kind = "finite" /\ actual_dist.val <= 0
          \/ desired_dist.kind = "finite" /\ desired_dist.val <= 0

\* C16: calculate_distance_score raises ValueError, and returns no score,
\* whenever max_variance is 0, negative, not finite or at least the desired
\* distance, the actual or the desired distance is not positive, any argument
\* is NaN or infinite, or any argument is not a number.
C16_InvalidRaises ==
    (last.op = "calculate_distance_score"
        /\ InvalidDistanceArgs(last.args[1], last.args[2], last.args[3])) =>
        /\ last.raised = "ValueError"
        /\ last.ret = NoneVal
        /\ last.warnings = <<>>

\* an infinite desired distance with a valid variance and actual distance:
\* the rejection is the one of the last check
C16_Witness ==
    /\ last.op = "calculate_distance_score"
    /\ last.args = <<PosInf, Fin(2), Fin(1)>>
    /\ InvalidDistanceArgs(last.args[1], last.args[2], last.args[3])
    /\ last.raised = "ValueError"

\* the score test_calculate_distance_score expects at a deviation, in hundredths
TableExpected(dev) ==
    CASE dev = 0    -> 100
      [] dev = 225  -> 71
      [] dev = 450  -> 52
      [] dev = 900  -> 30
      [] dev = 1800 -> 12

\* C17: for desired 18000 and max_variance 900 the score is within 0.01 of
\* 1.00, 0.71, 0.52, 0.30, 0.12 at deviations 0, 225, 450, 900, 1800, under
\* and over the target alike.
C17_TestTable ==
    (last.op = "calculate_distance_score" /\ last.args[1] = TableDesired
        /\ last.args[3] = TableVariance /\ last.args[2] \in TableActuals) =>
        /\ last.raised = NoError
        /\ (TableExpected(LastDeviation.val) - 1) * last.ret.den
               <= 100 * last.ret.num
        /\ 100 * last.ret.num
               <= (TableExpected(LastDeviation.val) + 1) * last.ret.den

\* the highway types of the table present in a mapping
KnownPresent(hl) == DOMAIN hl \cap Range(HighwayTypes)

\* the sum of f[h] over the types h of S
RECURSIVE SumOverTypes(_, _)
SumOverTypes(S, f) ==
    IF S = {} THEN 0
    ELSE LET h == CHOOSE x \in S : TRUE IN f[h] + SumOverTypes(S \ {h}, f)

\* the total length recorded under types of the table
KnownTotal(hl) == SumOverTypes(KnownPresent(hl), hl)

\* C18: calculate_road_type_score returns 0, and raises nothing, whenever the
\* total length over the known types present is 0: an empty mapping, a
\* mapping of unknown types only, known types all of length 0.
C18_ZeroLength ==
    (last.op = "calculate_road_type_score" /\ KnownTotal(last.args[1]) = 0) =>
        /\ last.raised = NoError
        /\ last.ret # NoneVal
        /\ last.ret.den > 0
        /\ last.ret.num = 0

\* a mapping with a known type of length 0 and an unknown type of length 2
C18_Witness ==
    /\ last.op = "calculate_road_type_score"
    /\ DOMAIN last.args[1] = {"primary", "hovercraft"}
    /\ last.args[1]["primary"] = 0
    /\ last.args[1]["hovercraft"] = 2
    /\ last.raised = NoError
    /\ last.ret.num = 0

\* the types the table prefers, and the types it prohibits
PreferTypes ==
    {"primary", "secondary", "tertiary", "unclassified", "primary_link",
     "secondary_link", "tertiary_link", "living_street", "road", "residential"}

ProhibitedTypes ==
    {"motorway", "motorway_link", "bus_guideway", "bridleway", "steps", "path",
     "via_ferrata", "escape", "raceway", "proposed", "construction"}

\* hl with length x moved from type p to type q
Moved(hl, p, q, x) ==
    [h \in DOMAIN hl \cup {q} |->
        IF h = p THEN hl[p] - x
        ELSE IF h = q THEN (IF q \in DOMAIN hl THEN hl[q] ELSE 0) + x
        ELSE hl[h]]

\* C19: moving a positive length from a preferred type to a prohibited type,
\* the total length unchanged, strictly lowers the road-type score, whatever
\* the composition it starts from.
C19_ProhibitedLowers ==
    last.op = "calculate_road_type_score" =>
        \A p \in PreferTypes \cap DOMAIN last.args[1] :
            \A q \in ProhibitedTypes :
                \A x \in 1..last.args[1][p] :
                    /\ last.raised = NoError
                    /\ KnownTotal(Moved(last.args[1], p, q, x))
                           = KnownTotal(last.args[1])
                    /\ calculate_road_type_score(
                           Moved(last.args[1], p, q, x)).raised = NoError
                    /\ FracLt(calculate_road_type_score(
                                  Moved(last.args[1], p, q, x)).score,
                              last.ret)

\* a composition that already holds prohibited length, and a move of 1
C19_Witness ==
    /\ last.op = "calculate_road_type_score"
    /\ DOMAIN last.args[1] = {"primary", "motorway"}
    /\ last.args[1]["primary"] = 2
    /\ last.args[1]["motorway"] = 1
    /\ last.ret.num * 20 = last.ret.den
    /\ calculate_road_type_score(
           Moved(last.args[1], "primary", "motorway", 1)).score.num * 40
         = calculate_road_type_score(
               Moved(last.args[1], "primary", "motorway", 1)).score.den

\* the sum of weight * length over the known types of hl that are not prohibited
ReferenceRaw(hl) ==
    SumOverTypes(KnownPresent(hl) \ ProhibitedTypes,
                 [h \in KnownPresent(hl) |-> highway_weights[h] * hl[h]])

\* the length of hl under prohibited types
ReferenceProhibited(hl) ==
    SumOverTypes(KnownPresent(hl) \cap ProhibitedTypes, hl)

\* hl without the types that are not in the table
KnownOnly(hl) == [h \in KnownPresent(hl) |-> hl[h]]

\* C20: for a mapping of non-negative lengths with positive known length the
\* score is raw / (total * 4), raw being the weighted length of the known
\* types that are not prohibited, times 0.1 exactly when some prohibited
\* length is positive; types outside the table change nothing and raise
\* nothing; the score is in [0, 1].
C20_ReferenceFormula ==
    last.op = "calculate_road_type_score" =>
        /\ last.raised = NoError
        /\ last.ret.den > 0
        /\ KnownTotal(last.args[1]) > 0 =>
              FracEq(last.ret,
                     IF ReferenceProhibited(last.args[1]) > 0
                     THEN Frac(ReferenceRaw(last.args[1]),
                               10 * (KnownTotal(last.args[1]) * 4))
                     ELSE Frac(ReferenceRaw(last.args[1]),
                               KnownTotal(last.args[1]) * 4))
        /\ FracEq(last.ret,
                  calculate_road_type_score(KnownOnly(last.args[1])).score)
        /\ FracLe(Frac(0, 1), last.ret)
        /\ FracLe(last.ret, Frac(1, 1))

\* preferred, avoided, prohibited and unknown lengths together: 7/160
C20_Witness ==
    /\ last.op = "calculate_road_type_score"
    /\ last.args[1] = [h \in RoadInputTypes |->
                          IF h \in {"primary", "hovercraft"} THEN 2 ELSE 1]
    /\ last.raised = NoError
    /\ last.ret.num * 160 = last.ret.den * 7

\* path is a walk of G: its nodes are nodes of G and consecutive nodes are
\* joined by an edge
ValidWalk(G, path) ==
    /\ \A i \in DOMAIN path : path[i] \in G.nodes
    /\ \A i \in 1..(Len(path) - 1) :
          \E e \in G.edges : e.u = path[i] /\ e.v = path[i + 1]

\* the shortest edge u -> v, the one of smallest key among equals
ShortestFirst(G, u, v) ==
    CHOOSE e \in {x \in G.edges : x.u = u /\ x.v = v} :
        \A f \in {x \in G.edges : x.u = u /\ x.v = v} :
            e.length < f.length \/ (e.length = f.length /\ e.key <= f.key)

\* the sum over the hops I of path of the length of the hop's shortest edge
RECURSIVE SumHops(_, _, _)
SumHops(I, G, path) ==
    IF I = {} THEN 0
    ELSE LET i == CHOOSE x \in I : TRUE
         IN  ShortestFirst(G, path[i], path[i + 1]).length
                 + SumHops(I \ {i}, G, path)

\* the sum of the values of a dict of numbers
RECURSIVE SumValues(_, _)
SumValues(d, K) ==
    IF K = {} THEN 0
    ELSE LET k == CHOOSE x \in K : TRUE IN d[k] + SumValues(d, K \ {k})

\* C21: for a valid walk the aggregation credits each hop's smallest parallel
\* length to the attribute value of that shortest edge (the first one on a
\* tie), once per hop: each total is the sum over the hops credited to it
\* and the totals sum to the sum of the per-hop shortest lengths.
C21_ShortestParallelPerHop ==
    (last.op = "calculate_path_lengths_by_edge_attribute"
        /\ ValidWalk(last.args[1], last.args[2])) =>
        LET G == last.args[1]
            path == last.args[2]
            Hops == 1..(Len(path) - 1)
            Credited(a) ==
                {i \in Hops : ShortestFirst(G, path[i], path[i + 1]).highway = a}
        IN  /\ last.raised = NoError
            /\ DOMAIN last.ret =
                   {ShortestFirst(G, path[i], path[i + 1]).highway : i \in Hops}
            /\ \A a \in DOMAIN last.ret :
                   last.ret[a] = SumHops(Credited(a), G, path)
            /\ SumValues(last.ret, DOMAIN last.ret) = SumHops(Hops, G, path)

\* 1 -> 2 -> 3 on the multigraph: 5 from the second edge of 1 -> 2 and 20
\* from the first of the two equal edges of 2 -> 3, both residential
C21_Witness ==
    /\ last.op = "calculate_path_lengths_by_edge_attribute"
    /\ last.args[1] = ParallelGraph
    /\ last.args[2] = <<1, 2, 3>>
    /\ ValidWalk(last.args[1], last.args[2])
    /\ last.raised = NoError
    /\ DOMAIN last.ret = {"residential"}
    /\ last.ret["residential"] = 25

\* C22: the aggregation raises NetworkXNoPath, and returns nothing, whenever
\* the node sequence is not a valid walk: a consecutive pair is not joined by
\* an edge or a node is not in the graph.
C22_InvalidWalkRaises ==
    (last.op = "calculate_path_lengths_by_edge_attribute"
        /\ ~ValidWalk(last.args[1], last.args[2])) =>
        /\ last.raised = "NetworkXNoPath"
        /\ last.ret = NoneVal

\* C23: a successful add_shortest_path_route(name, s, e) leaves under name a
\* record with start_node = s, end_node = e, a path that is a shortest path
\* from s to e in the graph -- <<1, 2, 3>> from 1 to 3 on the line 1 - 2 - 3
\* -- and the two sub-graphs add_route derives from that path.
C23_ShortestPathRegistered ==
    (last.op = "add_shortest_path_route" /\ last.raised = NoError) =>
        /\ last.name \in DOMAIN routes
        /\ LET r == routes[last.name]
           IN  /\ r["start_node"] = last.args[1]
               /\ r["end_node"] = last.args[2]
               /\ r["path"] \in SimplePaths(graph, last.args[1], last.args[2])
               /\ \A q \in SimplePaths(graph, last.args[1], last.args[2]) :
                      WalkLength(graph, r["path"], 1) <= WalkLength(graph, q, 1)
               /\ (last.args[1] = 1 /\ last.args[2] = 3) =>
                      r["path"] = <<1, 2, 3>>
               /\ InducedOn(r["route_graph"], graph, Range(r["path"]))
               /\ InducedOn(r["route_and_neighbour_graph"], graph,
                            Range(r["path"]) \cup OneHop(graph, r["path"]))

\* the route from 1 to 3 on the line graph
C23_Witness ==
    /\ last.op = "add_shortest_path_route"
    /\ last.raised = NoError
    /\ last.args[1] = 1
    /\ last.args[2] = 3
    /\ routes[last.name]["path"] = <<1, 2, 3>>
    /\ routes[last.name]["route_graph"].nodes = {1, 2, 3}

\* C24: add_shortest_path_route on a loaded graph that holds both endpoints
\* but no path between them fails with NetworkXNoPath, and no route is
\* registered by the call.
C24_NoPathRaisesNoPath ==
    (last.op = "add_shortest_path_route"
        /\ last.raised \notin {NoError, "AttributeError", "NodeNotFound"}) =>
        last.raised = "NetworkXNoPath"

\* C25: every registered route has path[0] == start_node and
\* path[-1] == end_node.
C25_PathEndpoints ==
    \A n \in DOMAIN routes :
        Len(routes[n]["path"]) > 0 =>
            /\ routes[n]["path"][1] = routes[n]["start_node"]
            /\ routes[n]["path"][Len(routes[n]["path"])] = routes[n]["end_node"]

C28_AllOrNothing ==
    [][(last'.op \in RegistrationOps /\ last'.raised # NoError) =>
          /\ routes' = routes
          /\ routes_keys' = routes_keys
          /\ graph' = graph
          /\ fitness_func' = fitness_func]_vars

\* a failed registration under a name that holds a scored route
C28_Witness ==
    /\ last.op \in RegistrationOps
    /\ last.raised \in {"NetworkXError", "NetworkXNoPath", "TypeError"}
    /\ Scored(routes, last.name)
    /\ routes[last.name]["fitness"] = Fin(3)

\* C29: when the registered fitness function raises on a route, the pass
\* ends with that exception: the routes visited before it hold the fitness
\* the function returned for them in this pass, the failing route and the
\* routes after it are as they were before the pass, and no route is added,
\* removed or reordered.
C29_PassNotAtomic ==
    [][(last'.op = "calc_fitness_for_routes" /\ last'.raised # NoError) =>
          /\ last'.raised = "IndexError"
          /\ fitness_func = "first_node"
          /\ routes_keys' = routes_keys
          /\ DOMAIN routes' = DOMAIN routes
          /\ \E k \in 1..Len(routes_keys) :
                /\ Len(routes[routes_keys[k]]["path"]) = 0
                /\ \A j \in 1..(k - 1) :
                      /\ Len(routes[routes_keys[j]]["path"]) > 0
                      /\ routes'[routes_keys[j]] =
                             SetItem(routes[routes_keys[j]], "fitness",
                                     Fin(routes[routes_keys[j]]["path"][1]))
                /\ \A j \in k..Len(routes_keys) :
                      routes'[routes_keys[j]] = routes[routes_keys[j]]]_vars

\* a pass that scored foo and then failed on bar, whose fitness is still the
\* one an earlier pass with path_len gave it
C29_Witness ==
    /\ last.op = "calc_fitness_for_routes"
    /\ last.raised = "IndexError"
    /\ routes_keys = <<"foo", "bar">>
    /\ Len(last.calls) = 2
    /\ routes["foo"]["fitness"] = Fin(2)
    /\ routes["bar"]["path"] = <<>>
    /\ Scored(routes, "bar")
    /\ routes["bar"]["fitness"] = Fin(0)

\* C30: every (distance, dist_variance) the Fitness constructor accepts
\* satisfies 0 < dist_variance < distance, so calculate_distance_score with
\* that configuration and a positive finite actual distance raises nothing.
C30_ConstructorMeetsPrecondition ==
    (last.op = "Fitness.__init__" /\ last.raised = NoError) =>
        /\ Lt(Fin(0), last.args[2])
        /\ Lt(last.args[2], last.args[1])
        /\ \A a \in {Fin(1), Fin(1000), Huge} :
              calculate_distance_score(last.args[1], a, last.args[2]).raised
                  = NoError

====
